---- MODULE Spec2Model ----
(***************************************************************************)
(* Model of notifier.py: one run of main() as a sequence of steps over the *)
(* persisted state file, the fetched listings and the messages sent, and   *)
(* the classifier is_swe as an operator over texts (sequences of           *)
(* characters).                                                            *)
(***************************************************************************)
EXTENDS Integers, Sequences, FiniteSets, TLC

(***************************************************************************)
(* Text: a Python str is a sequence of one-character strings.              *)
(***************************************************************************)

\* The characters used by the model, in code-point order.
Ascii ==
    << " ", "-",
       "0", "1", "2", "3", "4", "5", "6", "7", "8", "9",
       "A", "B", "C", "D", "E", "F", "G", "H", "I", "J", "K", "L", "M",
       "N", "O", "P", "Q", "R", "S", "T", "U", "V", "W", "X", "Y", "Z",
       "a", "b", "c", "d", "e", "f", "g", "h", "i", "j", "k", "l", "m",
       "n", "o", "p", "q", "r", "s", "t", "u", "v", "w", "x", "y", "z" >>

\* the position of each character in that order
CodeTable ==
    [c \in {Ascii[i] : i \in 1..Len(Ascii)} |->
        CHOOSE i \in 1..Len(Ascii) : Ascii[i] = c]
Code(c) == CodeTable[c]

\* str.lower() on one character
LowerChar(c) ==
    IF Code(c) >= Code("A") /\ Code(c) <= Code("Z")
    THEN Ascii[Code(c) + 26]
    ELSE c

\* str.lower()
Lower(s) == [i \in 1..Len(s) |-> LowerChar(s[i])]

\* str.strip(): drop leading and trailing blanks
Strip(s) ==
    LET nb == {i \in 1..Len(s) : s[i] # " "}
    IN  IF nb = {} THEN << >>
        ELSE LET lo == CHOOSE i \in nb : \A j \in nb : i <= j
                 hi == CHOOSE i \in nb : \A j \in nb : i >= j
             IN  SubSeq(s, lo, hi)

\* Python's `k in s` on strings: k occurs in s as a contiguous substring
Contains(k, s) ==
    \E i \in 0..(Len(s) - Len(k)) : \A j \in 1..Len(k) : s[i + j] = k[j]

\* Python's str ordering: lexicographic by code point
StrLess(a, b) ==
    \/ /\ Len(a) < Len(b)
       /\ \A i \in 1..Len(a) : a[i] = b[i]
    \/ \E i \in 1..Len(a) :
          /\ i <= Len(b)
          /\ \A j \in 1..(i - 1) : a[j] = b[j]
          /\ Code(a[i]) < Code(b[i])

\* sorted(ids): the ascending sequence of a finite set of strings
RECURSIVE Sorted(_)
Sorted(S) ==
    IF S = {} THEN << >>
    ELSE LET m == CHOOSE x \in S : \A y \in S \ {x} : StrLess(x, y)
         IN  << m >> \o Sorted(S \ {m})

\* decimal digits of a natural number, as str(n) prints them
RECURSIVE Digits(_)
Digits(n) ==
    IF n < 10 THEN << Ascii[Code("0") + n] >>
    ELSE Digits(n \div 10) \o << Ascii[Code("0") + (n % 10)] >>

(***************************************************************************)
(* JSON values: [t, s, n] with t the type, s the text of a string, n the   *)
(* number of an int (1/0 for a bool).                                      *)
(***************************************************************************)
None == [t |-> "null", s |-> << >>, n |-> 0]
JStr(s) == [t |-> "str", s |-> s, n |-> 0]
JInt(n) == [t |-> "int", s |-> << >>, n |-> n]
JBool(b) == [t |-> "bool", s |-> << >>, n |-> IF b THEN 1 ELSE 0]

\* Python truthiness, as used by `if x` and `not x`
Truthy(v) ==
    CASE v.t = "null" -> FALSE
      [] v.t = "str"  -> v.s # << >>
      [] v.t = "int"  -> v.n # 0
      [] v.t = "bool" -> v.n = 1

\* str(x)
Str(v) ==
    CASE v.t = "null" -> << "N", "o", "n", "e" >>
      [] v.t = "str"  -> v.s
      [] v.t = "int"  -> Digits(v.n)
      [] v.t = "bool" -> IF v.n = 1 THEN << "T", "r", "u", "e" >>
                         ELSE << "F", "a", "l", "s", "e" >>

(***************************************************************************)
(* The classifier.                                                         *)
(***************************************************************************)
SWE_CATEGORY_KEYWORDS ==
    { <<"s","o","f","t","w","a","r","e"," ","e","n","g","i","n","e","e","r","i","n","g">>,
      <<"s","o","f","t","w","a","r","e"," ","e","n","g","i","n","e","e","r">>,
      <<"s","o","f","t","w","a","r","e"," ","d","e","v","e","l","o","p","m","e","n","t">>,
      <<"s","w","e">>,
      <<"b","a","c","k","e","n","d">>,
      <<"b","a","c","k","-","e","n","d">>,
      <<"f","r","o","n","t","e","n","d">>,
      <<"f","r","o","n","t","-","e","n","d">>,
      <<"f","u","l","l"," ","s","t","a","c","k">>,
      <<"f","u","l","l","-","s","t","a","c","k">>,
      <<"f","u","l","l","s","t","a","c","k">>,
      <<"p","l","a","t","f","o","r","m">>,
      <<"e","n","g","i","n","e","e","r","i","n","g">>,
      <<"d","e","v","e","l","o","p","e","r">> }

TITLE_KEYWORDS ==
    { <<"s","o","f","t","w","a","r","e"," ","e","n","g","i","n","e","e","r">>,
      <<"s","o","f","t","w","a","r","e"," ","e","n","g","i","n","e","e","r","i","n","g">>,
      <<"s","w","e">>,
      <<"b","a","c","k","e","n","d">>,
      <<"b","a","c","k","-","e","n","d">>,
      <<"f","r","o","n","t","e","n","d">>,
      <<"f","r","o","n","t","-","e","n","d">>,
      <<"f","u","l","l"," ","s","t","a","c","k">>,
      <<"f","u","l","l","-","s","t","a","c","k">>,
      <<"f","u","l","l","s","t","a","c","k">>,
      <<"p","l","a","t","f","o","r","m">>,
      <<"d","e","v","e","l","o","p","e","r">>,
      <<"d","e","v","e","l","o","p","m","e","n","t">> }

\* The keys role_category probes, in priority order.
CategoryKeys ==
    << "category", "role_category", "roleCategory", "type", "role_type",
       "discipline", "track" >>

\* A listing element: a JSON object (isdict) with the keys the program reads;
\* a key that is absent reads as None through dict.get.
NoRole ==
    [ isdict |-> TRUE, id |-> None, active |-> None, is_visible |-> None,
      title |-> None, category |-> None, role_category |-> None,
      roleCategory |-> None, type |-> None, role_type |-> None,
      discipline |-> None, track |-> None ]

\* isinstance(val, str) and val.strip()
IsNonBlankStr(val) == val.t = "str" /\ Strip(val.s) # << >>

\* role_category(role): the first non-blank string among the keys,
\* stripped and lowercased; "" when there is none
role_category(role) ==
    LET hits == {i \in 1..Len(CategoryKeys) : IsNonBlankStr(role[CategoryKeys[i]])}
    IN  IF hits = {} THEN << >>
        ELSE LET first == CHOOSE i \in hits : \A j \in hits : i <= j
             IN  Lower(Strip(role[CategoryKeys[first]].s))

\* norm_text(x)
norm_text(x) == IF x.t = "null" THEN << >> ELSE Lower(Strip(Str(x)))

\* an is_swe that falls back to the title only when there is no category
is_swe_TitleOnlyWithoutCategory(role) ==
    LET cat   == role_category(role)
        title == norm_text(role.title)
    IN  IF cat # << >>
        THEN \E k \in SWE_CATEGORY_KEYWORDS : Contains(k, cat)
        ELSE \E k \in TITLE_KEYWORDS : Contains(k, title)

\* is_swe(role): a category keyword in the category, else a title keyword
\* in the title
is_swe(role) ==
    LET cat   == role_category(role)
        title == norm_text(role.title)
    IN  \/ \E k \in SWE_CATEGORY_KEYWORDS : Contains(k, cat)
        \/ \E k \in TITLE_KEYWORDS : Contains(k, title)

(***************************************************************************)
(* The persisted state file and the listings feed.                         *)
(***************************************************************************)

\* STATE_FILE: absent, not JSON, JSON that is no object, an object whose
\* seen_ids is no list, or an object holding the list ids
FileKinds == {"absent", "badjson", "notdict", "nolist", "ok"}
NoFile == [kind |-> "absent", ids |-> << >>]
BadFile(kind) == [kind |-> kind, ids |-> << >>]
FileOf(ids) == [kind |-> "ok", ids |-> ids]

\* load_state without the isinstance(..., list) test: a seen_ids that is a
\* string is iterated character by character
load_state_NoListCheck(file) ==
    IF file.kind = "ok" THEN file.ids
    ELSE IF file.kind = "nolist" THEN << JStr(<<"1">>) >>
    ELSE << >>

\* load_state(): the seen_ids list of a well-formed file, [] otherwise
load_state(file) == IF file.kind = "ok" THEN file.ids ELSE << >>

\* a load that skips the first stored identity
SeenOf_SkipsFirst(list) ==
    {Str(list[i]) : i \in {j \in 2..Len(list) : Truthy(list[j])}}

\* set(str(x) for x in state.get("seen_ids", []) if x)
SeenOf(list) == {Str(list[i]) : i \in {j \in 1..Len(list) : Truthy(list[j])}}

\* save_state(seen_ids): the file holding sorted(seen_ids)
save_state(ids) ==
    LET s == Sorted(ids)
    IN  FileOf([i \in 1..Len(s) |-> JStr(s[i])])

\* the filter loop without the is_visible test
Keeps_NoVisible(role) ==
    /\ role.isdict
    /\ Truthy(role.active)
    /\ is_swe(role)

\* the loop of main over the listings: dict, active, is_visible, is_swe
Keeps(role) ==
    /\ role.isdict
    /\ Truthy(role.active)
    /\ Truthy(role.is_visible)
    /\ is_swe(role)

SweListings(ls) == SelectSeq(ls, Keeps)

\* set(str(role.get("id")) for role in swe_listings if role.get("id"))
CurrentIds(swe) ==
    {Str(swe[i].id) : i \in {j \in 1..Len(swe) : Truthy(swe[j].id)}}

\* id_to_role.get(rid): the last kept role with that id, None when absent
IdToRole(swe, rid) ==
    LET hits == {i \in 1..Len(swe) : Truthy(swe[i].id) /\ Str(swe[i].id) = rid}
    IN  IF hits = {} THEN [NoRole EXCEPT !.isdict = FALSE]
        ELSE swe[CHOOSE i \in hits : \A j \in hits : i >= j]

DetailCap == 10

\* a detail loop without the [:10] slice
FirstDetails_NoCap(new) == Sorted(new)

\* sorted(new_ids)[:10]
FirstDetails(new) ==
    LET s == Sorted(new)
    IN  IF Len(s) <= DetailCap THEN s ELSE SubSeq(s, 1, DetailCap)

(***************************************************************************)
(* Inputs: the records a feed is made of.                                  *)
(***************************************************************************)
T_SoftwareEngineering == <<"S","o","f","t","w","a","r","e"," ","E","n","g","i","n","e","e","r","i","n","g">>
T_Engineering == <<"E","n","g","i","n","e","e","r","i","n","g">>
T_Marketing == <<"M","a","r","k","e","t","i","n","g">>
T_SweIntern == <<"S","o","f","t","w","a","r","e"," ","E","n","g","i","n","e","e","r"," ","I","n","t","e","r","n">>
T_BackendIntern == <<"B","a","c","k","e","n","d"," ","I","n","t","e","r","n">>
T_SalesIntern == <<"S","a","l","e","s"," ","I","n","t","e","r","n">>

RoleA ==
    [NoRole EXCEPT !.id = JStr(<<"1">>), !.active = JBool(TRUE),
                   !.is_visible = JBool(TRUE),
                   !.category = JStr(T_SoftwareEngineering),
                   !.title = JStr(T_SweIntern)]
RoleB ==
    [NoRole EXCEPT !.id = JInt(2), !.active = JBool(TRUE),
                   !.is_visible = JBool(TRUE),
                   !.category = JStr(T_Engineering),
                   !.title = JStr(T_BackendIntern)]
RoleNoId ==
    [NoRole EXCEPT !.active = JBool(TRUE), !.is_visible = JBool(TRUE),
                   !.category = JStr(T_SoftwareEngineering),
                   !.title = JStr(T_SweIntern)]
RoleInactive ==
    [RoleA EXCEPT !.id = JStr(<<"3">>), !.active = JBool(FALSE)]
RoleHidden ==
    [RoleA EXCEPT !.id = JStr(<<"4">>), !.is_visible = None]
RoleSales ==
    [RoleA EXCEPT !.id = JStr(<<"5">>), !.category = JStr(T_Marketing),
                  !.title = JStr(T_SalesIntern)]
RoleNotDict == [NoRole EXCEPT !.isdict = FALSE]

RolePool ==
    {RoleA, RoleB, RoleNoId, RoleInactive, RoleHidden, RoleSales, RoleNotDict}

MaxListings == 2

RECURSIVE SeqsUpTo(_, _)
SeqsUpTo(S, n) ==
    IF n = 0 THEN {<< >>}
    ELSE LET shorter == SeqsUpTo(S, n - 1)
         IN  shorter \cup {Append(s, x) : s \in shorter, x \in S}

\* a feed of BulkSize relevant records with the ids 1..BulkSize
BulkSize == 12
BulkFeed == [i \in 1..BulkSize |-> [RoleB EXCEPT !.id = JInt(i)]]

Feeds == SeqsUpTo(RolePool, MaxListings) \cup {BulkFeed, Tail(BulkFeed)}

InitialFiles ==
    { NoFile, BadFile("badjson"), BadFile("notdict"), BadFile("nolist"),
      FileOf(<< JInt(0), JStr(<< >>) >>), FileOf(<< JInt(2) >>) }

(***************************************************************************)
(* The runs of main().                                                     *)
(***************************************************************************)
VARIABLES
    pc,            \* where main is: "idle" between runs
    stateFile,     \* the content of STATE_FILE
    seen_ids,      \* main's seen_ids
    listings,      \* main's listings
    swe_listings,  \* main's swe_listings
    current_ids,   \* main's current_ids
    new_ids,       \* main's new_ids
    todo,          \* the identities the detail loop has still to send
    log,           \* what the run has done so far, in order
    outcome,       \* how the last run ended: "none", "ok", "notify", "fetch"
    fileAtStart,   \* history: STATE_FILE when the run began
    lastSaved,     \* history: the set the last save_state call was given
    priorSaved,    \* history: lastSaved when the run began
    hist,          \* history: current_ids of the successful runs that
                   \* directly precede this one, oldest first (at most 2)
    env,           \* the process environment: BOT_TOKEN and CHAT_ID
    baselined,     \* history: a baseline run has completed
    absorbed       \* history: identities that a successful run left
                   \* without a detail because of the cap and that every
                   \* current set computed since has contained

vars ==
    << pc, stateFile, seen_ids, listings, swe_listings, current_ids, new_ids,
       todo, log, outcome, fileAtStart, lastSaved, priorSaved, hist, env,
       baselined, absorbed >>

locals == << seen_ids, listings, swe_listings, current_ids, new_ids, todo >>

Event(ev, kind, n, rid) == [ev |-> ev, kind |-> kind, n |-> n, rid |-> rid]
Sent(kind, n, rid) == Event("send", kind, n, rid)
\* the identities the detail notifications of l are about
DetailsIn(l) ==
    {l[i].rid : i \in {j \in 1..Len(l) :
                         l[j].ev = "send"
                         /\ l[j].kind \in {"detail", "detail_id"}}}

\* os.getenv: None for an unset variable, its text otherwise
EnvValues == { None, JStr(<< >>), JStr(<<"t">>) }
Envs == [BOT_TOKEN : EnvValues, CHAT_ID : EnvValues]
Configured == [BOT_TOKEN |-> JStr(<<"t">>), CHAT_ID |-> JStr(<<"t">>)]

\* not BOT_TOKEN or not CHAT_ID
MissingConfig(e) == ~Truthy(e.BOT_TOKEN) \/ ~Truthy(e.CHAT_ID)

Init ==
    /\ pc = "idle"
    /\ stateFile \in InitialFiles
    /\ seen_ids = {}
    /\ listings = << >>
    /\ swe_listings = << >>
    /\ current_ids = {}
    /\ new_ids = {}
    /\ todo = << >>
    /\ log = << >>
    /\ outcome = "none"
    /\ fileAtStart = stateFile
    /\ lastSaved = [wrote |-> FALSE, ids |-> {}]
    /\ priorSaved = [wrote |-> FALSE, ids |-> {}]
    /\ hist = << >>
    /\ env = Configured
    /\ baselined = FALSE
    /\ absorbed = {}

\* send_telegram(message): the message goes out and main continues at
\* `next` (returns, when next is "idle"), or raise_for_status raises and
\* the run ends
send_telegram(ok, msg, next) ==
    IF ok
    THEN /\ log' = Append(log, msg)
         /\ pc' = next
         /\ outcome' = IF next = "idle" THEN "ok" ELSE outcome
    ELSE /\ log' = log
         /\ pc' = "idle"
         /\ outcome' = "notify"

\* the successful runs that directly precede the run now starting
NextHist ==
    IF outcome = "ok"
    THEN LET h == Append(hist, current_ids)
         IN  IF Len(h) > 2 THEN Tail(h) ELSE h
    ELSE << >>

\* a startup check that tests the token only
Startup_TokenOnly ==
    /\ pc = "idle"
    /\ \E e \in Envs :
          /\ env' = e
          /\ IF ~Truthy(e.BOT_TOKEN)
             THEN pc' = "idle" /\ outcome' = "config"
             ELSE pc' = "main" /\ outcome' = "none"
    /\ log' = << >>
    /\ hist' = NextHist
    /\ fileAtStart' = stateFile
    /\ priorSaved' = lastSaved
    /\ seen_ids' = {}
    /\ listings' = << >>
    /\ swe_listings' = << >>
    /\ current_ids' = {}
    /\ new_ids' = {}
    /\ todo' = << >>
    /\ UNCHANGED << stateFile, lastSaved, baselined, absorbed >>

\* the process starts: the module reads the environment and raises
\* RuntimeError when the token or the chat id is missing; otherwise main is
\* invoked
Startup ==
    /\ pc = "idle"
    /\ \E e \in Envs :
          /\ env' = e
          /\ IF MissingConfig(e)
             THEN pc' = "idle" /\ outcome' = "config"
             ELSE pc' = "main" /\ outcome' = "none"
    /\ log' = << >>
    /\ hist' = NextHist
    /\ fileAtStart' = stateFile
    /\ priorSaved' = lastSaved
    /\ seen_ids' = {}
    /\ listings' = << >>
    /\ swe_listings' = << >>
    /\ current_ids' = {}
    /\ new_ids' = {}
    /\ todo' = << >>
    /\ UNCHANGED << stateFile, lastSaved, baselined, absorbed >>

\* main begins: send_telegram(RUN_MESSAGE)
SendRunMessage ==
    /\ pc = "main"
    /\ \E ok \in BOOLEAN :
          send_telegram(ok, Sent("run", 0, << >>), "load")
    /\ UNCHANGED << stateFile, locals, fileAtStart, lastSaved, priorSaved,
                    hist, env, baselined, absorbed >>

\* state = load_state(); seen_ids = set(...)
LoadState ==
    /\ pc = "load"
    /\ seen_ids' = SeenOf(load_state(stateFile))
    /\ log' = Append(log, Event("load", "", 0, << >>))
    /\ pc' = "fetch"
    /\ UNCHANGED << stateFile, listings, swe_listings, current_ids, new_ids,
                    todo, outcome, fileAtStart, lastSaved, priorSaved, hist, env,
                    baselined, absorbed >>

\* a fetch that truncates the state file before it fails
FetchListings_Clobber ==
    /\ pc = "fetch"
    /\ \/ \E feed \in Feeds :
             /\ listings' = feed
             /\ log' = Append(log, Event("fetch", "", 0, << >>))
             /\ pc' = "filter"
             /\ outcome' = outcome
             /\ stateFile' = stateFile
       \/ /\ listings' = listings
          /\ log' = log
          /\ pc' = "idle"
          /\ outcome' = "fetch"
          /\ stateFile' = save_state({})
    /\ UNCHANGED << seen_ids, swe_listings, current_ids, new_ids,
                    todo, fileAtStart, lastSaved, priorSaved, hist, env,
                    baselined, absorbed >>

\* listings = fetch_listings(): a list, or an error (transport, status,
\* payload that is no list)
FetchListings ==
    /\ pc = "fetch"
    /\ \/ \E feed \in Feeds :
             /\ listings' = feed
             /\ log' = Append(log, Event("fetch", "", 0, << >>))
             /\ pc' = "filter"
             /\ outcome' = outcome
       \/ /\ listings' = listings
          /\ log' = log
          /\ pc' = "idle"
          /\ outcome' = "fetch"
    /\ UNCHANGED << stateFile, seen_ids, swe_listings, current_ids, new_ids,
                    todo, fileAtStart, lastSaved, priorSaved, hist, env,
                    baselined, absorbed >>

\* the filter loop and current_ids
FilterListings ==
    /\ pc = "filter"
    /\ swe_listings' = SweListings(listings)
    /\ current_ids' = CurrentIds(SweListings(listings))
    /\ pc' = "diff"
    /\ absorbed' = absorbed \cap CurrentIds(SweListings(listings))
    /\ UNCHANGED << stateFile, seen_ids, listings, new_ids, todo, log, outcome,
                    fileAtStart, lastSaved, priorSaved, hist, env, baselined >>

\* a baseline that saves seen_ids instead of current_ids
BaselineSave_SavesSeen ==
    /\ pc = "diff"
    /\ seen_ids = {}
    /\ stateFile' = save_state(seen_ids)
    /\ lastSaved' = [wrote |-> TRUE, ids |-> seen_ids]
    /\ log' = Append(log, Event("save", "", 0, << >>))
    /\ pc' = "baseline_ack"
    /\ UNCHANGED << locals, outcome, fileAtStart, priorSaved, hist, env,
                    baselined, absorbed >>

\* if not seen_ids: save_state(current_ids)
BaselineSave ==
    /\ pc = "diff"
    /\ seen_ids = {}
    /\ stateFile' = save_state(current_ids)
    /\ lastSaved' = [wrote |-> TRUE, ids |-> current_ids]
    /\ log' = Append(log, Event("save", "", 0, << >>))
    /\ pc' = "baseline_ack"
    /\ UNCHANGED << locals, outcome, fileAtStart, priorSaved, hist, env,
                    baselined, absorbed >>

\* send_telegram("Baseline created ..."); return
BaselineAck ==
    /\ pc = "baseline_ack"
    /\ \E ok \in BOOLEAN :
          /\ send_telegram(ok, Sent("baseline", 0, << >>), "idle")
          /\ baselined' = (baselined \/ ok)
    /\ UNCHANGED << stateFile, locals, fileAtStart, lastSaved, priorSaved,
                    hist, env, absorbed >>

\* a diff that reports every current identity
ComputeNew_All ==
    /\ pc = "diff"
    /\ seen_ids # {}
    /\ new_ids' = current_ids
    /\ pc' = IF current_ids # {} THEN "summary" ELSE "nonew"
    /\ UNCHANGED << stateFile, seen_ids, listings, swe_listings, current_ids,
                    todo, log, outcome, fileAtStart, lastSaved, priorSaved, hist, env,
                    baselined, absorbed >>

\* new_ids = current_ids - seen_ids; if new_ids: ... else: ...
ComputeNew ==
    /\ pc = "diff"
    /\ seen_ids # {}
    /\ new_ids' = current_ids \ seen_ids
    /\ pc' = IF current_ids \ seen_ids # {} THEN "summary" ELSE "nonew"
    /\ UNCHANGED << stateFile, seen_ids, listings, swe_listings, current_ids,
                    todo, log, outcome, fileAtStart, lastSaved, priorSaved, hist, env,
                    baselined, absorbed >>

\* send_telegram(f"{len(new_ids)} new SWE internship listing(s) added!")
SendSummary ==
    /\ pc = "summary"
    /\ \E ok \in BOOLEAN :
          send_telegram(ok, Sent("summary", Cardinality(new_ids), << >>),
                        "details")
    /\ todo' = FirstDetails(new_ids)
    /\ UNCHANGED << stateFile, seen_ids, listings, swe_listings, current_ids,
                    new_ids, fileAtStart, lastSaved, priorSaved, hist, env, baselined, absorbed >>

\* one turn of the loop over sorted(new_ids)[:10]
SendDetail ==
    /\ pc = "details"
    /\ todo # << >>
    /\ \E ok \in BOOLEAN :
          send_telegram(ok,
              Sent(IF IdToRole(swe_listings, Head(todo)).isdict
                   THEN "detail" ELSE "detail_id", 0, Head(todo)),
              IF Len(todo) = 1 THEN "save" ELSE "details")
    /\ todo' = Tail(todo)
    /\ UNCHANGED << stateFile, seen_ids, listings, swe_listings, current_ids,
                    new_ids, fileAtStart, lastSaved, priorSaved, hist, env, baselined, absorbed >>

\* send_telegram("No new SWE listings this run.")
SendNoNew ==
    /\ pc = "nonew"
    /\ \E ok \in BOOLEAN :
          send_telegram(ok, Sent("nonew", 0, << >>), "save")
    /\ UNCHANGED << stateFile, locals, fileAtStart, lastSaved, priorSaved,
                    hist, env, baselined, absorbed >>

\* a save that keeps only what was seen before or got a detail
SaveState_OnlyDetailed ==
    /\ pc = "save"
    /\ stateFile' = save_state((current_ids \cap seen_ids) \cup DetailsIn(log))
    /\ lastSaved' = [wrote |-> TRUE,
                     ids |-> (current_ids \cap seen_ids) \cup DetailsIn(log)]
    /\ log' = Append(log, Event("save", "", 0, << >>))
    /\ pc' = "idle"
    /\ outcome' = "ok"
    /\ absorbed' = absorbed \cup (new_ids \ DetailsIn(log))
    /\ UNCHANGED << locals, fileAtStart, priorSaved, hist, env, baselined >>

\* a save that accumulates: save_state(seen_ids | current_ids)
SaveState_Union ==
    /\ pc = "save"
    /\ stateFile' = save_state(seen_ids \cup current_ids)
    /\ lastSaved' = [wrote |-> TRUE, ids |-> seen_ids \cup current_ids]
    /\ log' = Append(log, Event("save", "", 0, << >>))
    /\ pc' = "idle"
    /\ outcome' = "ok"
    /\ absorbed' = absorbed \cup (new_ids \ DetailsIn(log))
    /\ UNCHANGED << locals, fileAtStart, priorSaved, hist, env, baselined >>

\* save_state(current_ids), the last statement of main
SaveState ==
    /\ pc = "save"
    /\ stateFile' = save_state(current_ids)
    /\ lastSaved' = [wrote |-> TRUE, ids |-> current_ids]
    /\ log' = Append(log, Event("save", "", 0, << >>))
    /\ pc' = "idle"
    /\ outcome' = "ok"
    /\ absorbed' = absorbed \cup (new_ids \ DetailsIn(log))
    /\ UNCHANGED << locals, fileAtStart, priorSaved, hist, env, baselined >>

Next ==
    \/ Startup
    \/ SendRunMessage
    \/ LoadState
    \/ FetchListings
    \/ FilterListings
    \/ BaselineSave
    \/ BaselineAck
    \/ ComputeNew
    \/ SendSummary
    \/ SendDetail
    \/ SendNoNew
    \/ SaveState

Spec == Init /\ [][Next]_vars

(***************************************************************************)
(* The classifier on its own: one record is drawn and the filter loop of   *)
(* main is applied to it.                                                  *)
(***************************************************************************)
T_DataEngineering == <<"D","a","t","a"," ","E","n","g","i","n","e","e","r","i","n","g">>
T_PlatformPadded == <<" ","P","l","a","t","f","o","r","m"," ">>
T_Blank == <<" "," ">>
T_DataAnalystIntern == <<"D","a","t","a"," ","A","n","a","l","y","s","t"," ","I","n","t","e","r","n">>
T_WebDeveloper == <<"W","e","b"," ","D","e","v","e","l","o","p","e","r">>

CategoryValues ==
    { None, JInt(7), JStr(T_Blank), JStr(T_SoftwareEngineering),
      JStr(T_DataEngineering), JStr(T_Marketing), JStr(T_PlatformPadded) }
TitleValues ==
    { None, JInt(5), JStr(T_SweIntern), JStr(T_BackendIntern),
      JStr(T_DataAnalystIntern), JStr(T_SalesIntern), JStr(T_WebDeveloper),
      JStr(T_DataEngineering) }
TypeValues == { None, JStr(T_Engineering) }

ClassifyPool ==
    { [RoleA EXCEPT !.category = c, !.title = ti, !.type = ty] :
        c \in CategoryValues, ti \in TitleValues, ty \in TypeValues }

InitSwe ==
    /\ pc = "classify"
    /\ listings \in {<< r >> : r \in ClassifyPool}
    /\ stateFile = NoFile
    /\ seen_ids = {}
    /\ swe_listings = << >>
    /\ current_ids = {}
    /\ new_ids = {}
    /\ todo = << >>
    /\ log = << >>
    /\ outcome = "none"
    /\ fileAtStart = NoFile
    /\ lastSaved = [wrote |-> FALSE, ids |-> {}]
    /\ priorSaved = [wrote |-> FALSE, ids |-> {}]
    /\ hist = << >>
    /\ env = Configured
    /\ baselined = FALSE
    /\ absorbed = {}

\* the filter loop of main on the drawn record
ClassifyRole ==
    /\ pc = "classify"
    /\ swe_listings' = SweListings(listings)
    /\ current_ids' = CurrentIds(SweListings(listings))
    /\ pc' = "classified"
    /\ UNCHANGED << stateFile, seen_ids, listings, new_ids, todo, log, outcome,
                    fileAtStart, lastSaved, priorSaved, hist, env,
                    baselined, absorbed >>

NextSwe == ClassifyRole

SpecSwe == InitSwe /\ [][NextSwe]_vars

(***************************************************************************)
(* What a run has done, read off its log.                                  *)
(***************************************************************************)
Did(ev) == \E i \in 1..Len(log) : log[i].ev = ev
SentKinds == {log[i].kind : i \in {j \in 1..Len(log) : log[j].ev = "send"}}
DetailedIds ==
    {log[i].rid : i \in {j \in 1..Len(log) :
                           log[j].ev = "send"
                           /\ log[j].kind \in {"detail", "detail_id"}}}
\* the messages the run has sent, in order
SentMsgs == SelectSeq(log, LAMBDA e : e.ev = "send")
\* the seen set the state file holds, as a run would read it
PersistedSeen == SeenOf(load_state(stateFile))
\* a run has ended normally / has ended at all
RunOk == pc = "idle" /\ outcome = "ok"
RunOver == pc = "idle" /\ outcome # "none"
\* the run took the baseline branch / the active branch
BaselineRun == Did("fetch") /\ pc \notin {"filter", "diff"} /\ seen_ids = {}
ActiveRun == Did("fetch") /\ pc \notin {"filter", "diff"} /\ seen_ids # {}

(***************************************************************************)
(* Claims.                                                                 *)
(***************************************************************************)

\* C1: a run that loads an empty seen set and whose fetch succeeds sends no
\* new-listing summary and no detail notification, and once it is over the
\* persisted seen set is exactly the current set it computed.
C1_BaselineReportsNothingAndSavesCurrent ==
    (Did("load") /\ Did("fetch") /\ seen_ids = {}) =>
        /\ SentKinds \cap {"summary", "detail", "detail_id"} = {}
        /\ new_ids = {}
        /\ RunOver => /\ PersistedSeen = current_ids
                      /\ current_ids = CurrentIds(SweListings(listings))

C1_Witness ==
    /\ RunOk
    /\ Did("load") /\ Did("fetch") /\ seen_ids = {}
    /\ current_ids # {}
    /\ "baseline" \in SentKinds

\* C2: after every run that completes without error the persisted seen set
\* is exactly that run's current set; an identity of the prior seen set that
\* is absent from current is not persisted.
C2_PersistedIsCurrentNotUnion ==
    RunOk =>
        /\ PersistedSeen = current_ids
        /\ \A x \in seen_ids \ current_ids : x \notin PersistedSeen

C2_Witness ==
    /\ RunOk
    /\ ActiveRun
    /\ seen_ids \ current_ids # {}
    /\ current_ids # {}

\* C3: in an active run the identities reported as new, and counted in the
\* summary, are exactly current minus seen, seen being the set the last
\* writing run persisted: nothing of seen is reported, and everything of
\* current outside seen is.
C3_NewIsCurrentMinusSeen ==
    (ActiveRun /\ priorSaved.wrote) =>
        /\ seen_ids = priorSaved.ids
        /\ new_ids = current_ids \ priorSaved.ids
        /\ \A i \in 1..Len(log) :
              (log[i].ev = "send" /\ log[i].kind = "summary") =>
                  log[i].n = Cardinality(current_ids \ priorSaved.ids)
        /\ DetailedIds \subseteq current_ids \ priorSaved.ids
        /\ RunOk => ("summary" \in SentKinds <=> current_ids \ priorSaved.ids # {})

C3_Witness ==
    /\ RunOk
    /\ ActiveRun /\ priorSaved.wrote
    /\ new_ids # {}
    /\ current_ids \cap seen_ids # {}
    /\ "summary" \in SentKinds

\* C4: when fetch_listings fails the run ends with the state file as it was
\* when the run began, so the next run reads the same seen set.
C4_FetchFailureLeavesState ==
    (pc = "idle" /\ outcome = "fetch") =>
        /\ stateFile = fileAtStart
        /\ PersistedSeen = seen_ids
        /\ ~Did("save")

C4_Witness ==
    /\ pc = "idle" /\ outcome = "fetch"
    /\ priorSaved.wrote
    /\ seen_ids # {}

\* the exclude keyword the specification names, and a record matching it
EXCLUDE_KEYWORDS == { <<"d","a","t","a">> }
MatchesExclude(role) ==
    \E k \in EXCLUDE_KEYWORDS :
        \/ Contains(k, role_category(role))
        \/ Contains(k, norm_text(role.title))

\* C5: a record whose category or title matches an exclude keyword is
\* classified not relevant, also when it matches an include keyword (the
\* specification's exclude keyword is "data").
C5_ExcludeWins ==
    pc = "classified" =>
        \A i \in 1..Len(listings) :
            MatchesExclude(listings[i]) =>
                /\ ~is_swe(listings[i])
                /\ \A j \in 1..Len(swe_listings) : swe_listings[j] # listings[i]

\* the run has computed swe_listings and current_ids
Filtered == Did("fetch") /\ pc # "filter"
\* a record that is no object or has a flag that is not true
Gated(r) == ~r.isdict \/ r.active # JBool(TRUE) \/ r.is_visible # JBool(TRUE)
Passes(r) == ~Gated(r) /\ is_swe(r)
HasId(r) == TRUE
\* the identities of the records of ls that satisfy P
IdsOf(ls, P(_)) ==
    {Str(ls[i].id) : i \in {j \in 1..Len(ls) : Truthy(ls[j].id) /\ P(ls[j])}}

\* C6: an identity is in the current set only if some record of the feed is
\* an object with both flags true that the classifier accepts; a record with
\* a flag false or missing is dropped, and an identity carried only by such
\* records is neither current, nor reported, nor stored by the run.
C6_OnlyActiveVisibleRelevant ==
    Filtered =>
        LET passing == IdsOf(listings, Passes)
        IN  /\ current_ids \subseteq passing
            /\ \A i \in 1..Len(listings) :
                  Gated(listings[i]) =>
                      \A j \in 1..Len(swe_listings) :
                          swe_listings[j] # listings[i]
            /\ \A x \in IdsOf(listings, Gated) \ passing :
                  /\ x \notin current_ids \cup new_ids \cup DetailedIds
                  /\ Did("save") => x \notin PersistedSeen

C6_Witness ==
    /\ RunOk /\ ActiveRun
    /\ new_ids # {}
    /\ IdsOf(listings, Gated) # {}
    /\ "detail" \in SentKinds

\* C7: every relevant record contributes an identity to the current set,
\* its id when it has one and a derived identity otherwise, so that after an
\* active run a relevant record without an id is tracked.
C7_EveryRelevantRecordTracked ==
    (RunOk /\ ActiveRun) =>
        \A i \in 1..Len(swe_listings) :
            IF Truthy(swe_listings[i].id)
            THEN Str(swe_listings[i].id) \in current_ids
            ELSE current_ids \ IdsOf(swe_listings, HasId) # {}

\* C8: a state file that is missing, not JSON, no object, or whose seen_ids
\* is no list loads as the empty seen set, without an error, and the run is
\* a baseline run: no new-listing notification, state overwritten with the
\* current set.
C8_MalformedStateIsBaseline ==
    (Did("load") /\ fileAtStart.kind # "ok") =>
        /\ seen_ids = {}
        /\ pc \notin {"summary", "details", "nonew", "save"}
        /\ SentKinds \subseteq {"run", "baseline"}
        /\ (RunOver /\ Did("fetch")) =>
              /\ stateFile = save_state(current_ids)
              /\ outcome \in {"ok", "notify"}
        /\ RunOk => "baseline" \in SentKinds

C8_Witness ==
    /\ RunOk
    /\ fileAtStart.kind = "nolist"
    /\ current_ids # {}
    /\ stateFile.kind = "ok"

\* C9: when a send_telegram call fails the error leaves main, and the
\* persisted seen set is what it was before the run, in a baseline run as in
\* an active run.
C9_NotifyFailureLeavesState ==
    (pc = "idle" /\ outcome = "notify") =>
        PersistedSeen = SeenOf(load_state(fileAtStart))

\* C10: over three consecutive successful runs, an identity that is current
\* in the first, not in the second and again in the third is reported as new
\* in the third.
C10_ReappearanceIsNew ==
    (RunOk /\ Len(hist) = 2) =>
        \A x \in current_ids :
            (x \in hist[1] /\ x \notin hist[2]) =>
                /\ x \in new_ids
                /\ "summary" \in SentKinds

\* C11: when the bot token or the chat id is missing from the environment
\* the process stops at startup: nothing is fetched or sent, and the state
\* file is neither read nor written.
C11_MissingConfigIsFatal ==
    MissingConfig(env) =>
        /\ pc = "idle"
        /\ outcome = "config"
        /\ log = << >>
        /\ stateFile = fileAtStart
        /\ seen_ids = {}

C11_Witness ==
    /\ MissingConfig(env)
    /\ Truthy(env.BOT_TOKEN)
    /\ outcome = "config"
    /\ lastSaved.wrote
    /\ PersistedSeen # {}

\* C12: a successful active run with n > 0 new identities sends, after the
\* run message, exactly one summary counting n and then exactly min(n, 10)
\* detail notifications: one for each of the 10 lexicographically smallest
\* new identities, in ascending order.
C12_OneSummaryThenCappedDetails ==
    (RunOk /\ ActiveRun /\ current_ids \ seen_ids # {}) =>
        LET n == Cardinality(current_ids \ seen_ids)
            k == IF n < 10 THEN n ELSE 10
            S == SentMsgs
            D == {S[i].rid : i \in 3..Len(S)}
        IN  /\ Len(S) = 2 + k
            /\ S[1].kind = "run"
            /\ S[2].kind = "summary" /\ S[2].n = n
            /\ \A i \in 3..Len(S) : S[i].kind = "detail"
            /\ \A i, j \in 3..Len(S) : i < j => StrLess(S[i].rid, S[j].rid)
            /\ D \subseteq current_ids \ seen_ids
            /\ \A x \in (current_ids \ seen_ids) \ D : \A y \in D : StrLess(y, x)

C12_Witness ==
    /\ RunOk /\ ActiveRun
    /\ Cardinality(new_ids) > 10
    /\ Cardinality(DetailedIds) = 10

\* C13: within a run the steps come in the order fetch, filter, diff,
\* notify, persist: no notification is sent before the fetch has completed,
\* and the state file is written only after every notification of the run.
C13_PipelineOrder ==
    /\ \A i \in 1..Len(log) :
          log[i].ev = "send" => \E j \in 1..(i - 1) : log[j].ev = "fetch"
    /\ \A i \in 1..Len(log) :
          log[i].ev = "save" => \A j \in (i + 1)..Len(log) : log[j].ev # "send"

\* C14: once a baseline run has completed, no later run takes the baseline
\* branch again.
C14_BaselineOnlyOnce ==
    baselined => pc # "baseline_ack"

\* C16: after a successful active run with more than 10 new identities every
\* new identity, also one that got no detail notification, is in the
\* persisted seen set; and an identity left without a detail by the cap gets
\* no detail in any later run, as long as every current set computed since
\* has contained it.
C16_BeyondCapAbsorbed ==
    /\ (RunOk /\ ActiveRun /\ Cardinality(new_ids) > 10) =>
          /\ new_ids \subseteq PersistedSeen
          /\ new_ids \ DetailedIds # {}
          /\ new_ids \ DetailedIds \subseteq absorbed
    /\ absorbed \cap DetailedIds = {}
    /\ pc # "idle" => absorbed \cap new_ids = {}
    /\ absorbed \subseteq PersistedSeen

C16_Witness ==
    /\ absorbed # {}
    /\ RunOk /\ ActiveRun
    /\ absorbed \subseteq current_ids
    /\ absorbed \cap new_ids = {}
    /\ DetailedIds # {}

\* the record's category as the claim describes it: the first of the
\* category keys that holds a non-blank string, lowercased; its title,
\* lowercased
CategoryText(r) ==
    LET holds(i) == r[CategoryKeys[i]].t = "str"
                    /\ \E c \in 1..Len(r[CategoryKeys[i]].s) :
                          r[CategoryKeys[i]].s[c] # " "
    IN  IF \E i \in 1..Len(CategoryKeys) : holds(i)
        THEN Lower(r[CategoryKeys[
                 CHOOSE i \in 1..Len(CategoryKeys) :
                     holds(i) /\ \A j \in 1..(i - 1) : ~holds(j)]].s)
        ELSE << >>
TitleText(r) == IF r.title.t = "null" THEN << >> ELSE Lower(Str(r.title))

\* C15: a record is classified relevant exactly when its category (the first
\* non-blank string among the category keys, lowercased) contains a category
\* keyword as a substring or, failing that, its lowercased title contains a
\* title keyword as a substring; with no match in either it is not relevant.
C15_TwoTierClassification ==
    pc = "classified" =>
        \A i \in 1..Len(listings) :
            (\E j \in 1..Len(swe_listings) : swe_listings[j] = listings[i])
            <=> \/ \E k \in SWE_CATEGORY_KEYWORDS :
                      Contains(k, CategoryText(listings[i]))
                \/ \E k \in TITLE_KEYWORDS :
                      Contains(k, TitleText(listings[i]))

C15_Witness ==
    /\ pc = "classified"
    /\ swe_listings # << >>
    /\ CategoryText(listings[1]) # << >>
    /\ \A k \in SWE_CATEGORY_KEYWORDS : ~Contains(k, CategoryText(listings[1]))
    /\ \E k \in TITLE_KEYWORDS : Contains(k, TitleText(listings[1]))

\* the run is the second of two consecutive successful runs that computed
\* the same, non-empty current set (as they do on the same source content)
RerunOnSameSource ==
    /\ RunOk
    /\ Len(hist) >= 1
    /\ hist[Len(hist)] = current_ids
    /\ current_ids # {}

\* C17 as stated: the second of two consecutive successful runs on the same
\* source, with a non-empty current set, reports no new identity, sends only
\* the no-new-listings message and leaves the persisted seen set as the
\* first run wrote it.
C17_RerunSendsOnlyNoNew ==
    RerunOnSameSource =>
        /\ new_ids = {}
        /\ SentKinds = {"nonew"}
        /\ stateFile = fileAtStart

\* C17, amended: the second run reports no new identity, sends the run
\* message and then only the no-new-listings message, and leaves the
\* persisted seen set as the first run wrote it.
C17_RerunIdempotent ==
    RerunOnSameSource =>
        /\ new_ids = {}
        /\ ActiveRun
        /\ Len(SentMsgs) = 2
        /\ SentMsgs[1].kind = "run"
        /\ SentMsgs[2].kind = "nonew"
        /\ stateFile = fileAtStart
        /\ PersistedSeen = hist[Len(hist)]

C17_Witness ==
    /\ RerunOnSameSource
    /\ Cardinality(current_ids) = 2
    /\ "nonew" \in SentKinds

====
